---- MODULE Spec2Model ----
(***************************************************************************)
(* FileWatcher (src/src/core/FileWatcher.cpp): the watch registry          *)
(* FileWatcher, the per-path watch FileWatcherPrivate, the checksum        *)
(* computation and the asynchronous checksum tasks, as a state machine.    *)
(*                                                                         *)
(* A file is a sequence of 1 KiB blocks plus a flag saying whether it can  *)
(* be opened.  A digest is either Empty (a cleared QByteArray) or the      *)
(* SHA-256 of the data fed to the hash; SHA-256 is modelled as injective.  *)
(***************************************************************************)
EXTENDS Bags, FiniteSets, Integers, Sequences, TLC

VARIABLES
    files,          \* the file system: path -> [content, readable]
    m_watches,      \* FileWatcher::m_watches: tracked path -> FileWatcherPrivate
    m_fileWatcher,  \* the paths QFileSystemWatcher m_fileWatcher is subscribed to
    tasks,          \* path -> bag of checksum tasks in flight for that watch
    out,            \* what the last step let the application observe
    phase,          \* history: path -> "run", "paused" (pause() called, resume() not
                    \* yet) or "window" (resume() called, its ignore window running)
    change,         \* history: path -> the last change of the file and what followed
    removed,        \* history: path -> how it was removed, if it was and is not back
    regKiB,         \* history: path -> checksumSizeKibibytes of its last addPath
    budget          \* API calls and file changes still to come in this run

vars == <<files, m_watches, m_fileWatcher, tasks, out, phase, change, removed, regKiB, budget>>

----------------------------------------------------------------------------
(* Bounds and input sets *)

MaxTasks == 2
MaxSteps == 4
MaxEvents == 2
MaxBlocks == 2

Paths == {"a", "b"}
NoPath == ""
Contents == {<<0, 0>>, <<0, 1>>, <<1, 0>>}
\* <<checksumIntervalSeconds, checksumSizeKibibytes>> of an addPath
Configs == {<<0, -1>>, <<1, 1>>}

\* for the checksum engine alone: every file of at most MaxBlocks blocks, and
\* limits up to 2^21 KiB (2 GiB) and 2^22 + 1 KiB
AllContents == UNION {[1..n -> {0, 1}] : n \in 0..MaxBlocks}
AllLimitsKiB == {-1, 0, 1, 2, 2097152, 4194305}

Empty == <<>>
KiB == 1024

----------------------------------------------------------------------------
(* Checksum engine *)

Min(a, b) == IF a < b THEN a ELSE b

\* QCryptographicHash(Sha256): injective on the data it is fed, never Empty
Sha256(data) == <<data>>

\* QFile::read(maxSize): the first maxSize bytes (maxSize is a multiple of KiB)
Read(content, maxSize) == SubSeq(content, 1, Min(Len(content), maxSize \div KiB))

\* checksumSizeKibibytes * 1024 in a 32-bit int: 2^22 KiB wrap to 0 bytes
MulKiB(n) == (((n + 2097152) % 4194304) - 2097152) * KiB

calculateChecksum(w, fs) ==
    IF w.m_filePath \in DOMAIN fs /\ fs[w.m_filePath].readable
    THEN IF w.m_fileChecksumSizeBytes > 0
         THEN Sha256(Read(fs[w.m_filePath].content, w.m_fileChecksumSizeBytes))
         ELSE Sha256(fs[w.m_filePath].content)
    ELSE w.m_fileChecksum

----------------------------------------------------------------------------
(* Per-path watch: FileWatcherPrivate *)

NewWatch ==
    [m_filePath |-> NoPath,
     m_fileChecksum |-> Empty,
     m_fileChangeDelayTimer |-> FALSE,
     m_fileIgnoreDelayTimer |-> FALSE,
     m_fileChecksumTimer |-> FALSE,
     m_fileChecksumSizeBytes |-> -1,
     m_ignoreFileChange |-> FALSE]

\* stop() without m_fileChecksumTimer.stop()
stopKeepsPolling(w) ==
    [w EXCEPT !.m_filePath = NoPath,
              !.m_fileChecksum = Empty,
              !.m_fileChangeDelayTimer = FALSE]

stop(w) ==
    [w EXCEPT !.m_filePath = NoPath,
              !.m_fileChecksum = Empty,
              !.m_fileChecksumTimer = FALSE,
              !.m_fileChangeDelayTimer = FALSE]

\* start() without the assignment of line 67
startLeavesPath(w, path, checksumIntervalSeconds, checksumSizeKibibytes, fs) ==
    LET s == stop(w)
        a == [s EXCEPT !.m_fileChecksumSizeBytes = MulKiB(checksumSizeKibibytes)]
        b == [a EXCEPT !.m_fileChecksum = calculateChecksum(a, fs)]
    IN  [b EXCEPT !.m_fileChecksumTimer = IF checksumIntervalSeconds > 0 THEN TRUE ELSE @,
                  !.m_ignoreFileChange = FALSE]

start(w, path, checksumIntervalSeconds, checksumSizeKibibytes, fs) ==
    LET s == stop(w)
        a == [s EXCEPT !.m_filePath = path,
                       !.m_fileChecksumSizeBytes = MulKiB(checksumSizeKibibytes)]
        b == [a EXCEPT !.m_fileChecksum = calculateChecksum(a, fs)]
    IN  [b EXCEPT !.m_fileChecksumTimer = IF checksumIntervalSeconds > 0 THEN TRUE ELSE @,
                  !.m_ignoreFileChange = FALSE]

hasSameFileChecksum(w, fs) == calculateChecksum(w, fs) = w.m_fileChecksum

\* pause() without m_fileChangeDelayTimer.stop()
pauseKeepsTimer(w) == [w EXCEPT !.m_ignoreFileChange = TRUE]

pause(w) ==
    [w EXCEPT !.m_ignoreFileChange = TRUE,
              !.m_fileChangeDelayTimer = FALSE]

resume(w) ==
    [w EXCEPT !.m_ignoreFileChange = FALSE,
              !.m_fileIgnoreDelayTimer = TRUE]

shouldIgnoreChanges(w) ==
    \/ w.m_filePath = NoPath
    \/ w.m_ignoreFileChange
    \/ w.m_fileIgnoreDelayTimer
    \/ w.m_fileChangeDelayTimer

\* the completion callback without the assignment of line 124
onChecksumForgets(w, checksum) ==
    LET c == IF checksum # w.m_fileChecksum
             THEN [w EXCEPT !.m_fileChangeDelayTimer = TRUE]
             ELSE w
    IN  [c EXCEPT !.m_ignoreFileChange = FALSE]

\* the completion callback with line 128 inside the if of line 123
onChecksumKeepsGuard(w, checksum) ==
    IF checksum # w.m_fileChecksum
    THEN [w EXCEPT !.m_fileChecksum = checksum,
                   !.m_fileChangeDelayTimer = TRUE,
                   !.m_ignoreFileChange = FALSE]
    ELSE w

\* the completion callback of checkFileChanged
onChecksum(w, checksum) ==
    LET c == IF checksum # w.m_fileChecksum
             THEN [w EXCEPT !.m_fileChecksum = checksum,
                            !.m_fileChangeDelayTimer = TRUE]
             ELSE w
    IN  [c EXCEPT !.m_ignoreFileChange = FALSE]

----------------------------------------------------------------------------
(* Asynchronous checksum tasks *)

Queued == [done |-> FALSE, result |-> Empty, stale |-> FALSE]
Done(t, checksum) == [t EXCEPT !.done = TRUE, !.result = checksum]
InFlight(p) == BagCardinality(tasks[p])
TaskSet(p) == BagToSet(tasks[p])
One(t) == SetToBag({t})

\* start() on a watch with tasks in flight: the tasks submitted before it are
\* now stale; a task that reads m_filePath and m_fileChecksum while start()
\* is between stop() and the new assignments finds both cleared
Outdated(t, raced) ==
    IF raced /\ ~t.done
    THEN [done |-> TRUE, result |-> Empty, stale |-> TRUE]
    ELSE [t EXCEPT !.stale = TRUE]

RECURSIVE OutdatedBag(_, _, _)
\* the bag B, over the tasks S, with every task t replaced by Outdated(t, raced)
OutdatedBag(B, S, raced) ==
    IF S = {} THEN EmptyBag
    ELSE LET t == CHOOSE x \in S : TRUE
         IN  [u \in {Outdated(t, raced)} |-> B[t]] (+) OutdatedBag(B, S \ {t}, raced)

----------------------------------------------------------------------------
(* Observations *)

\* out: the path of the fileChanged signal the registry emitted in the last step
Quiet == NoPath
FileChangedSig(p) == p

Tracked == DOMAIN m_watches
With(p, w) == [q \in Tracked \cup {p} |-> IF q = p THEN w ELSE m_watches[q]]
Without(S) == [q \in Tracked \ S |-> m_watches[q]]
Spend == budget > 0 /\ budget' = budget - 1

----------------------------------------------------------------------------
(* History kept for the properties; no action reads it in a guard *)

NoChange == [when |-> "none", evs |-> 0, notes |-> 0]
OtherChange == [when |-> "other", evs |-> 0, notes |-> 0]
Scenario(kind) == [when |-> kind, evs |-> 0, notes |-> 0]

InSync(p) == files[p].readable /\ hasSameFileChecksum(m_watches[p], files)

\* the spec's state Idle: armed, not paused, nothing pending, digest up to date
Idle(p) ==
    /\ p \in Tracked /\ phase[p] = "run"
    /\ InFlight(p) = 0 /\ ~shouldIgnoreChanges(m_watches[p])
    /\ InSync(p)

\* the spec's state Paused, entered from Idle
QuietlyPaused(p) ==
    /\ p \in Tracked /\ phase[p] = "paused"
    /\ InFlight(p) = 0
    /\ m_watches[p].m_ignoreFileChange /\ ~m_watches[p].m_fileChangeDelayTimer
    /\ InSync(p)

\* the history of a change of p's file that leaves the files fs
Changed(p, fs) ==
    IF p \notin Tracked THEN NoChange
    ELSE IF ~fs[p].readable \/ calculateChecksum(m_watches[p], fs) = m_watches[p].m_fileChecksum
         THEN OtherChange
    ELSE IF Idle(p) THEN Scenario("idle")
    ELSE IF QuietlyPaused(p) THEN Scenario("paused")
    ELSE OtherChange

\* an OS event for p: counted for a change made while Idle; for a change made
\* while Paused, counted when it comes before the ignore window has elapsed;
\* for a change whose notification pause() cancelled, counted when it comes
\* after that window
Seen(p) ==
    IF \/ change[p].when = "idle"
       \/ change[p].when = "paused" /\ phase[p] # "run"
       \/ change[p].when = "cancelled" /\ phase[p] = "run"
    THEN [change[p] EXCEPT !.evs = Min(@ + 1, MaxEvents)]
    ELSE change[p]

Told(p) ==
    IF change[p].when \in {"idle", "paused", "cancelled"}
    THEN [change[p] EXCEPT !.notes = Min(@ + 1, 2)]
    ELSE change[p]

Busy(p) == InFlight(p) > 0 \/ m_watches[p].m_fileChangeDelayTimer

\* the history of p's change after pause(): a change made while Idle whose
\* debounce timer is pending has its notification cancelled
Interrupted(p) ==
    IF change[p].when # "idle" THEN change[p]
    ELSE IF p \in Tracked /\ m_watches[p].m_fileChangeDelayTimer THEN Scenario("cancelled")
    ELSE OtherChange

----------------------------------------------------------------------------
Init ==
    /\ files = [p \in Paths |-> [content |-> <<0, 0>>, readable |-> TRUE]]
    /\ m_watches = [q \in {} |-> NewWatch]
    /\ m_fileWatcher = {}
    /\ tasks = [p \in Paths |-> EmptyBag]
    /\ out = Quiet
    /\ phase = [p \in Paths |-> "run"]
    /\ change = [p \in Paths |-> NoChange]
    /\ removed = [p \in Paths |-> "no"]
    /\ regKiB = [p \in Paths |-> -1]
    /\ budget = MaxSteps

----------------------------------------------------------------------------
(* Watch registry: FileWatcher *)

\* QFileSystemWatcher::addPath: a path that cannot be opened is not added
Subscribe(p) == IF files[p].readable THEN m_fileWatcher \cup {p} ELSE m_fileWatcher

AddPath(p, checksumIntervalSeconds, checksumSizeKibibytes, raced) ==
    /\ Spend
    /\ raced => (p \in Tracked /\ \E t \in TaskSet(p) : ~t.done)
    /\ m_fileWatcher' = IF p \in Tracked THEN m_fileWatcher ELSE Subscribe(p)
    /\ m_watches' = With(p, start(IF p \in Tracked THEN m_watches[p] ELSE NewWatch,
                                  p, checksumIntervalSeconds, checksumSizeKibibytes, files))
    /\ tasks' = [tasks EXCEPT ![p] = OutdatedBag(tasks[p], TaskSet(p), raced)]
    /\ out' = Quiet
    /\ change' = [change EXCEPT ![p] = NoChange]
    /\ removed' = [removed EXCEPT ![p] = "no"]
    /\ regKiB' = [regKiB EXCEPT ![p] = checksumSizeKibibytes]
    /\ UNCHANGED <<files, phase>>

\* removePath without m_watches.remove(path): the watch stays in the registry
RemovedKeepsWatch(S) ==
    /\ m_fileWatcher' = m_fileWatcher \ S
    /\ removed' = [q \in Paths |-> IF q \notin S THEN removed[q]
                                   ELSE IF Busy(q) THEN "busy" ELSE "idle"]
    /\ UNCHANGED <<m_watches, tasks, change, regKiB, phase>>

\* AsyncTask::runThenCallback(task, context, callback) delivers the result
\* only while the context, here the watch, exists: the results of the tasks
\* of a destroyed watch are dropped
Orphaned(S) == [q \in Paths |-> IF q \in S THEN EmptyBag ELSE tasks[q]]

\* removing the last reference destroys the watch: ~FileWatcherPrivate stops
\* its timers
Removed(S) ==
    /\ m_fileWatcher' = m_fileWatcher \ S
    /\ m_watches' = Without(S)
    /\ tasks' = Orphaned(S)
    /\ removed' = [q \in Paths |-> IF q \notin S THEN removed[q]
                                   ELSE IF Busy(q) THEN "busy" ELSE "idle"]
    /\ change' = [q \in Paths |-> IF q \in S THEN NoChange ELSE change[q]]
    /\ regKiB' = [q \in Paths |-> IF q \in S THEN -1 ELSE regKiB[q]]
    /\ phase' = [q \in Paths |-> IF q \in S /\ phase[q] = "window" THEN "run" ELSE phase[q]]

RemovePath(p) ==
    /\ Spend
    /\ Removed({p} \cap Tracked)
    /\ out' = Quiet
    /\ UNCHANGED files

RemoveAllPaths ==
    /\ Spend
    /\ Tracked # {}
    /\ Removed(Tracked)
    /\ out' = Quiet
    /\ UNCHANGED files

Pause ==
    /\ Spend
    /\ m_watches' = [q \in Tracked |-> pause(m_watches[q])]
    /\ out' = Quiet
    /\ phase' = [q \in Paths |-> "paused"]
    /\ change' = [q \in Paths |-> Interrupted(q)]
    /\ UNCHANGED <<files, m_fileWatcher, tasks, removed, regKiB>>

Resume ==
    /\ Spend
    /\ m_watches' = [q \in Tracked |-> resume(m_watches[q])]
    /\ out' = Quiet
    /\ phase' = [q \in Paths |-> IF q \in Tracked THEN "window" ELSE "run"]
    /\ change' = [q \in Paths |-> IF change[q].when = "idle" THEN OtherChange ELSE change[q]]
    /\ UNCHANGED <<files, m_fileWatcher, tasks, removed, regKiB>>

\* hasSameFileChecksum(path) answering for a path it does not find
HasSameFileChecksumAssumed(p) ==
    IF p \in Tracked THEN hasSameFileChecksum(m_watches[p], files) ELSE TRUE

\* FileWatcher::hasSameFileChecksum(path): reads, changes nothing
HasSameFileChecksum(p) ==
    IF p \in Tracked THEN hasSameFileChecksum(m_watches[p], files) ELSE FALSE

\* checkFileChanged with one reentrancy guard shared by all the watches
CheckShared(p) ==
    IF shouldIgnoreChanges(m_watches[p])
    THEN UNCHANGED <<m_watches, tasks>>
    ELSE /\ InFlight(p) < MaxTasks
         /\ m_watches' = [q \in Tracked |-> [m_watches[q] EXCEPT !.m_ignoreFileChange = TRUE]]
         /\ tasks' = [tasks EXCEPT ![p] = @ (+) One(Queued)]

\* FileWatcherPrivate::checkFileChanged up to the submission of the task
Check(p) ==
    IF shouldIgnoreChanges(m_watches[p])
    THEN UNCHANGED <<m_watches, tasks>>
    ELSE /\ InFlight(p) < MaxTasks
         /\ m_watches' = With(p, [m_watches[p] EXCEPT !.m_ignoreFileChange = TRUE])
         /\ tasks' = [tasks EXCEPT ![p] = @ (+) One(Queued)]

\* FileWatcher::checkFileChanged(path): an event of the OS backend
OsEvent(p) ==
    /\ IF p \in Tracked THEN Check(p) ELSE UNCHANGED <<m_watches, tasks>>
    /\ out' = Quiet
    /\ change' = [change EXCEPT ![p] = Seen(p)]
    /\ removed' = [removed EXCEPT ![p] = IF @ = "busy" THEN "busyEvent" ELSE @]
    /\ UNCHANGED <<files, m_fileWatcher, phase, regKiB, budget>>

\* m_fileChecksumTimer times out
ChecksumTimerFire(p) ==
    /\ p \in Tracked
    /\ m_watches[p].m_fileChecksumTimer
    /\ Check(p)
    /\ out' = Quiet
    /\ UNCHANGED <<files, m_fileWatcher, phase, change, removed, regKiB, budget>>

\* m_fileChangeDelayTimer timing out with nothing connected to it
ChangeDelayTimerDropped(p) ==
    /\ p \in Tracked
    /\ m_watches[p].m_fileChangeDelayTimer
    /\ m_watches' = With(p, [m_watches[p] EXCEPT !.m_fileChangeDelayTimer = FALSE])
    /\ out' = Quiet
    /\ UNCHANGED <<files, m_fileWatcher, tasks, phase, change, removed, regKiB, budget>>

\* m_fileChangeDelayTimer times out: fileChanged(m_filePath), relayed by the registry
ChangeDelayTimerFire(p) ==
    /\ p \in Tracked
    /\ m_watches[p].m_fileChangeDelayTimer
    /\ m_watches' = With(p, [m_watches[p] EXCEPT !.m_fileChangeDelayTimer = FALSE])
    /\ out' = FileChangedSig(m_watches[p].m_filePath)
    /\ change' = [change EXCEPT ![p] = Told(p)]
    /\ UNCHANGED <<files, m_fileWatcher, tasks, phase, removed, regKiB, budget>>

\* m_fileIgnoreDelayTimer times out: nothing is connected to it
IgnoreDelayTimerFire(p) ==
    /\ p \in Tracked
    /\ m_watches[p].m_fileIgnoreDelayTimer
    /\ m_watches' = With(p, [m_watches[p] EXCEPT !.m_fileIgnoreDelayTimer = FALSE])
    /\ out' = Quiet
    /\ phase' = [phase EXCEPT ![p] = IF @ = "window" THEN "run" ELSE @]
    /\ UNCHANGED <<files, m_fileWatcher, tasks, change, removed, regKiB, budget>>

\* the task body runs off the control thread: [=] { return calculateChecksum(); }
Compute(p, t) ==
    /\ t \in TaskSet(p)
    /\ ~t.done
    /\ tasks' = [tasks EXCEPT ![p] =
                    (@ (-) One(t)) (+) One(Done(t, calculateChecksum(m_watches[p], files)))]
    /\ out' = Quiet
    /\ UNCHANGED <<files, m_watches, m_fileWatcher, phase, change, removed, regKiB, budget>>

TaskRun(p) == \E t \in TaskSet(p) : Compute(p, t)

\* the result is delivered to the callback on the control thread
Deliver(p, t) ==
    /\ t \in TaskSet(p)
    /\ t.done
    /\ m_watches' = With(p, onChecksum(m_watches[p], t.result))
    /\ tasks' = [tasks EXCEPT ![p] = @ (-) One(t)]
    /\ out' = Quiet
    /\ UNCHANGED <<files, m_fileWatcher, phase, change, removed, regKiB, budget>>

TaskComplete(p) == \E t \in TaskSet(p) : Deliver(p, t)

----------------------------------------------------------------------------
(* Environment: other processes write the files, shares come and go *)

FileWrite(p, c) ==
    /\ Spend
    /\ c # files[p].content
    /\ files' = [files EXCEPT ![p].content = c]
    /\ out' = Quiet
    /\ change' = [change EXCEPT ![p] = Changed(p, files')]
    /\ UNCHANGED <<m_watches, m_fileWatcher, tasks, phase, removed, regKiB>>

FileAvailable(p, b) ==
    /\ Spend
    /\ b # files[p].readable
    /\ files' = [files EXCEPT ![p].readable = b]
    /\ out' = Quiet
    /\ change' = [change EXCEPT ![p] = IF p \in Tracked THEN OtherChange ELSE NoChange]
    /\ UNCHANGED <<m_watches, m_fileWatcher, tasks, phase, removed, regKiB>>

----------------------------------------------------------------------------
\* every step in which each task reads the fields of its watch atomically
NextAtomic ==
    \/ \E p \in Paths, cf \in Configs : AddPath(p, cf[1], cf[2], FALSE)
    \/ \E p \in Paths : RemovePath(p)
    \/ RemoveAllPaths
    \/ Pause
    \/ Resume
    \/ \E p \in Paths : OsEvent(p)
    \/ \E p \in Paths : ChecksumTimerFire(p)
    \/ \E p \in Paths : ChangeDelayTimerFire(p)
    \/ \E p \in Paths : IgnoreDelayTimerFire(p)
    \/ \E p \in Paths : TaskRun(p)
    \/ \E p \in Paths : TaskComplete(p)
    \/ \E p \in Paths, c \in Contents : FileWrite(p, c)
    \/ \E p \in Paths, b \in BOOLEAN : FileAvailable(p, b)

\* and the steps in which a task body runs concurrently with start()
Next ==
    \/ NextAtomic
    \/ \E p \in Paths, cf \in Configs : AddPath(p, cf[1], cf[2], TRUE)

\* the behaviours without the data race: what fails here fails without it
SpecAtomic == Init /\ [][NextAtomic]_vars

Spec == Init /\ [][Next]_vars

\* a registry that is used for one path only
LivePath == "a"

NextLive ==
    \/ \E cf \in Configs, raced \in BOOLEAN : AddPath(LivePath, cf[1], cf[2], raced)
    \/ RemovePath(LivePath)
    \/ RemoveAllPaths
    \/ Pause
    \/ Resume
    \/ OsEvent(LivePath)
    \/ ChecksumTimerFire(LivePath)
    \/ ChangeDelayTimerFire(LivePath)
    \/ IgnoreDelayTimerFire(LivePath)
    \/ TaskRun(LivePath)
    \/ TaskComplete(LivePath)
    \/ \E c \in Contents : FileWrite(LivePath, c)
    \/ \E b \in BOOLEAN : FileAvailable(LivePath, b)

\* the control loop fires every active timer and delivers every result, and
\* the thread pool runs every submitted task
Fairness ==
    /\ WF_vars(ChecksumTimerFire(LivePath))
    /\ WF_vars(ChangeDelayTimerFire(LivePath))
    /\ WF_vars(IgnoreDelayTimerFire(LivePath))
    /\ WF_vars(TaskRun(LivePath))
    /\ WF_vars(TaskComplete(LivePath))

SpecLive == Init /\ [][NextLive]_vars /\ Fairness

\* the checksum engine on its own: registrations of files of every content
\* under every limit
InitChecksum ==
    /\ files \in [Paths -> {[content |-> c, readable |-> TRUE] : c \in AllContents}]
    /\ m_watches = [q \in {} |-> NewWatch]
    /\ m_fileWatcher = {}
    /\ tasks = [p \in Paths |-> EmptyBag]
    /\ out = Quiet
    /\ phase = [p \in Paths |-> "run"]
    /\ change = [p \in Paths |-> NoChange]
    /\ removed = [p \in Paths |-> "no"]
    /\ regKiB = [p \in Paths |-> -1]
    /\ budget = MaxSteps

NextChecksum == \E p \in Paths, k \in AllLimitsKiB : AddPath(p, 0, k, FALSE)

SpecChecksum == InitChecksum /\ [][NextChecksum]_vars

----------------------------------------------------------------------------
(* Properties *)

\* C1: after pause() no fileChanged is emitted for any path until resume() has
\* been called and the ignore window it started has elapsed.
C1_SilentWhilePaused == out # NoPath => phase[out] = "run"

Settled(p) == InFlight(p) = 0 /\ ~m_watches[p].m_fileChangeDelayTimer

C3_OneTaskPerWatch == \A p \in Paths : InFlight(p) <= 1

\* C4: the result of a task submitted before the path was reset by addPath is
\* discarded: its delivery changes neither the digest, the timers nor
\* m_ignoreFileChange, and emits nothing.
C4_LateResultDiscarded ==
    [][\A p \in Paths : \A t \in TaskSet(p) :
          (t.stale /\ Deliver(p, t)) => (m_watches' = m_watches /\ out' = NoPath)]_vars

\* C5: a path that was removed and is not registered again has no watch, no
\* subscription and no task whose result could be delivered, no fileChanged is
\* emitted for it, and an OS event for it changes nothing in the registry,
\* also when a notification was pending or a task in flight at the removal.
C5_RemovedPathIsSilent ==
    [][\A p \in Paths :
          removed'[p] # "no" =>
              /\ p \notin DOMAIN m_watches' /\ p \notin m_fileWatcher'
              /\ BagCardinality(tasks'[p]) = 0
              /\ out' # p
              /\ (removed[p] # "no" /\ OsEvent(p))
                     => UNCHANGED <<m_watches, m_fileWatcher, tasks>>]_vars

\* C5 witness: an OS event was delivered for a path removed while busy
C5_Witness == \E p \in Paths : removed[p] = "busyEvent"

\* C6: a write made while paused, whose OS event is delivered before the
\* ignore window of resume() has elapsed, is never notified.
C6_OwnWriteNeverNotified ==
    \A p \in Paths :
        (change[p].when = "paused" /\ change[p].evs >= 1) => change[p].notes = 0

\* C7: the keys of m_watches are exactly the paths subscribed in m_fileWatcher.
C7_SubscriptionsMatchKeys == Tracked = m_fileWatcher

\* C8: hasSameFileChecksum(path) is true for a tracked path whose file has not
\* changed since its last addPath.
C8_SameChecksumWhileUnchanged ==
    \A p \in Tracked : change[p].when = "none" => hasSameFileChecksum(m_watches[p], files)

\* C9: while the file of a watch cannot be opened and no task is in flight,
\* no step changes the stored digest: what is computed is the known digest.
C9_UnavailableKeepsDigest ==
    [][\A p \in Tracked \cap DOMAIN m_watches' :
          (~files[p].readable /\ InFlight(p) = 0)
              => m_watches'[p].m_fileChecksum = m_watches[p].m_fileChecksum]_vars

\* the first n KiB of a file
Prefix(c, n) == SubSeq(c, 1, Min(Len(c), n))

\* what the watch of p computes for a readable file of content c
DigestOf(p, c) ==
    calculateChecksum(m_watches[p], [files EXCEPT ![p] = [content |-> c, readable |-> TRUE]])

\* C10: with a limit of N > 0 KiB two contents have the same digest exactly
\* when they agree on their first N KiB; with a limit <= 0 exactly when they
\* are equal.
C10_DigestOfPrefix ==
    \A p \in Tracked : \A c1, c2 \in AllContents :
        (DigestOf(p, c1) = DigestOf(p, c2))
            <=> IF regKiB[p] > 0
                THEN Prefix(c1, regKiB[p]) = Prefix(c2, regKiB[p])
                ELSE c1 = c2

\* C11: for a path that is not tracked hasSameFileChecksum(path) is false, and
\* removePath(path) and an OS event for it change neither the registry, the
\* subscriptions nor any watch or task, and signal nothing.
C11_UntrackedPathIsBenign ==
    [][\A p \in Paths \ Tracked :
          /\ ~HasSameFileChecksum(p)
          /\ (RemovePath(p) \/ OsEvent(p))
                 => (UNCHANGED <<m_watches, m_fileWatcher, tasks>> /\ out' = Quiet)]_vars

\* C11 witness: one call was made and it left everything as constructed, which
\* only removePath of an untracked path does; hasSameFileChecksum is false
C11_Witness ==
    /\ budget = MaxSteps - 1
    /\ Tracked = {} /\ m_fileWatcher = {}
    /\ \A p \in Paths : /\ files[p] = [content |-> <<0, 0>>, readable |-> TRUE]
                        /\ phase[p] = "run" /\ removed[p] = "no"
                        /\ ~HasSameFileChecksum(p)

\* the digest of the first limit KiB of c, of all of c for a limit <= 0
DigestUnder(c, limit) == Sha256(IF limit > 0 THEN Prefix(c, limit) ELSE c)

\* C12: addPath(p, interval, limit) on a tracked path p adds no key and no
\* subscription, and leaves p's watch with the digest of the current content
\* under the new limit (for a file that can be read), no pending debounce, no
\* running ignore window, the periodic timer armed iff interval > 0, and
\* m_ignoreFileChange false.
C12_ReRegistrationResets ==
    [][\A p \in Tracked : \A cf \in Configs :
          AddPath(p, cf[1], cf[2], FALSE) =>
              /\ DOMAIN m_watches' = Tracked
              /\ m_fileWatcher' = m_fileWatcher
              /\ files[p].readable
                     => m_watches'[p].m_fileChecksum = DigestUnder(files[p].content, cf[2])
              /\ ~m_watches'[p].m_fileChangeDelayTimer
              /\ ~m_watches'[p].m_fileIgnoreDelayTimer
              /\ m_watches'[p].m_fileChecksumTimer = (cf[1] > 0)
              /\ ~m_watches'[p].m_ignoreFileChange]_vars

\* an explicit failure outcome of addPath, were there one to observe
SubscriptionFailed == "subscription failed"

\* C13: an addPath whose subscription the OS backend refuses lets its caller
\* observe the failure.
C13_SubscriptionFailureSurfaced ==
    [][\A p \in Paths \ Tracked : \A cf \in Configs :
          (AddPath(p, cf[1], cf[2], FALSE) /\ Subscribe(p) = m_fileWatcher)
              => out' = SubscriptionFailed]_vars

\* C14: fileChanged(p) is emitted only for a file that changed since the
\* stored digest was taken by the last addPath; the debounce timer is started
\* only by a completion whose digest differs from the stored one; and the
\* stored digest changes only in start() or in such a completion.
C14_NotifiesOnlyRealChanges ==
    [][\A p \in Tracked :
          /\ out' = p => change[p].when # "none"
          /\ (/\ p \in DOMAIN m_watches'
              /\ ~m_watches[p].m_fileChangeDelayTimer
              /\ m_watches'[p].m_fileChangeDelayTimer)
                 => \E t \in TaskSet(p) :
                        Deliver(p, t) /\ t.result # m_watches[p].m_fileChecksum
          /\ (/\ p \in DOMAIN m_watches'
              /\ m_watches'[p].m_fileChecksum # m_watches[p].m_fileChecksum)
                 => \/ \E cf \in Configs, raced \in BOOLEAN : AddPath(p, cf[1], cf[2], raced)
                    \/ \E t \in TaskSet(p) :
                           Deliver(p, t) /\ t.result # m_watches[p].m_fileChecksum]_vars

DebouncePending(p) == p \in Tracked /\ m_watches[p].m_fileChangeDelayTimer

\* C15: a completion that finds a digest different from the stored one stores
\* it and starts the debounce timer; a pending debounce timer goes away only
\* by firing, which emits fileChanged with the path of the watch, or by
\* pause(), removePath() or addPath() for the path; and it does go away.
C15_DifferingCompletionNotifies ==
    /\ [][\A p \in Tracked : \A t \in TaskSet(p) :
             (Deliver(p, t) /\ t.result # m_watches[p].m_fileChecksum)
                 => /\ m_watches'[p].m_fileChecksum = t.result
                    /\ m_watches'[p].m_fileChangeDelayTimer]_vars
    /\ [][\A p \in Tracked :
             (DebouncePending(p) /\ ~DebouncePending(p)')
                 => \/ out' = p
                    \/ Pause \/ RemovePath(p) \/ RemoveAllPaths
                    \/ \E cf \in Configs, raced \in BOOLEAN : AddPath(p, cf[1], cf[2], raced)]_vars
    /\ \A p \in Paths : DebouncePending(p) ~> ~DebouncePending(p)

\* C15 witness: fileChanged was emitted for a path whose stored digest is the
\* digest of the changed file
C15_Witness ==
    \E p \in Tracked :
        /\ out = p /\ change[p].notes >= 1
        /\ InSync(p)

\* C16: a change of the file of an idle watch whose periodic timer is armed is
\* notified, OS event or not, unless the path is paused, removed or registered
\* again or the file changes again first; the periodic timer is armed exactly
\* by an addPath with interval > 0 and disarmed by one with interval 0; and a
\* watch whose periodic timer is not armed submits a task only in an OS event.
C16_PollingNotifiesWithoutEvents ==
    /\ \A p \in Paths :
           (p \in Tracked /\ change[p].when = "idle" /\ m_watches[p].m_fileChecksumTimer)
               ~> (change[p].notes >= 1 \/ change[p].when # "idle")
    /\ [][\A p \in Paths : \A cf \in Configs, raced \in BOOLEAN :
             AddPath(p, cf[1], cf[2], raced)
                 => m_watches'[p].m_fileChecksumTimer = (cf[1] > 0)]_vars
    /\ [][\A p \in Tracked \cap DOMAIN m_watches' :
             /\ m_watches'[p].m_fileChecksumTimer # m_watches[p].m_fileChecksumTimer
                    => \E cf \in Configs, raced \in BOOLEAN : AddPath(p, cf[1], cf[2], raced)
             /\ (~m_watches[p].m_fileChecksumTimer /\ BagCardinality(tasks'[p]) > InFlight(p))
                    => OsEvent(p)]_vars

\* C16 witness: a change was notified without any OS event for the path
C16_Witness ==
    \E p \in Tracked :
        /\ change[p].when = "idle" /\ change[p].evs = 0 /\ change[p].notes = 1
        /\ m_watches[p].m_fileChecksumTimer

\* a step of the watch of p alone
StepOf(p) ==
    \/ OsEvent(p) \/ ChecksumTimerFire(p) \/ TaskRun(p) \/ TaskComplete(p)
    \/ ChangeDelayTimerFire(p) \/ IgnoreDelayTimerFire(p)
    \/ RemovePath(p)
    \/ \E cf \in Configs, raced \in BOOLEAN : AddPath(p, cf[1], cf[2], raced)

\* C17: an OS event, a timer fire, a task step or an addPath or removePath for
\* p leaves the watch and the tasks of every other tracked path q as they
\* are, and an OS event for an ungated q submits a task whatever is in flight
\* for p.
C17_WatchesAreIndependent ==
    [][\A p \in Paths : \A q \in Tracked \ {p} :
          /\ \/ /\ q \in DOMAIN m_watches'
                /\ m_watches'[q] = m_watches[q]
                /\ tasks'[q] = tasks[q]
             \/ ~StepOf(p)
          /\ \/ BagCardinality(tasks'[q]) = InFlight(q) + 1
             \/ ~(InFlight(p) > 0 /\ ~shouldIgnoreChanges(m_watches[q]) /\ OsEvent(q))]_vars

\* C17 witness: checksums are in flight for two paths at once
C17_Witness == \A p \in Paths : p \in Tracked /\ InFlight(p) > 0

\* C18: the delivery of a result clears m_ignoreFileChange whatever the
\* result; an OS event for a watch that is not gated submits a task; and a
\* watch with a task in flight comes to a state in which m_ignoreFileChange is
\* clear, unless it is removed.
C18_GuardIsReleased ==
    /\ [][\A p \in Tracked : \A t \in TaskSet(p) :
             Deliver(p, t) => ~m_watches'[p].m_ignoreFileChange]_vars
    /\ [][\A p \in Tracked :
             (~shouldIgnoreChanges(m_watches[p]) /\ OsEvent(p))
                 => BagCardinality(tasks'[p]) = InFlight(p) + 1]_vars
    /\ \A p \in Paths :
           (p \in Tracked /\ InFlight(p) > 0)
               ~> (p \notin Tracked \/ ~m_watches[p].m_ignoreFileChange)

\* C18 witness: a check is in flight on a watch that has completed a check and
\* notified its result before
C18_Witness ==
    \E p \in Tracked :
        /\ change[p].notes >= 1
        /\ InFlight(p) > 0 /\ m_watches[p].m_ignoreFileChange

\* C19: every watch in m_watches is started on the key it is stored under,
\* and the path of an emitted fileChanged is not empty and is a key of
\* m_watches.
C19_WatchPathIsItsKey ==
    /\ \A p \in Tracked : p # NoPath /\ m_watches[p].m_filePath = p
    /\ out # Quiet => out \in Tracked

\* C19 witness: fileChanged was emitted by a watch started on its key
C19_Witness == \E p \in Tracked : out = p /\ m_watches[p].m_filePath = p

\* C20: a change whose pending notification pause() cancelled is never
\* notified, before or after resume(), and the stored digest is the digest of
\* the changed file, as long as the file does not change again and the path
\* is not registered again.
C20_CancelledNotificationStaysCancelled ==
    \A p \in Paths :
        change[p].when = "cancelled" =>
            /\ change[p].notes = 0
            /\ p \in Tracked /\ hasSameFileChecksum(m_watches[p], files)

\* C20 witness: after resume() and its ignore window an OS event for the path
\* was checked and the check is through, without a notification
C20_Witness ==
    \E p \in Paths :
        /\ change[p].when = "cancelled" /\ phase[p] = "run"
        /\ change[p].evs >= 1 /\ change[p].notes = 0
        /\ Settled(p) /\ ~shouldIgnoreChanges(m_watches[p])

====
